---- MODULE Spec2Model ----
(***************************************************************************)
(* A model of simply-fuse: the inode table (src/src/basic.rs), the         *)
(* attribute model (src/src/attrs.rs, src/src/lib.rs), the Runner's        *)
(* request loop (src/src/runner.rs) and their operations.                  *)
(*                                                                         *)
(* An Option<T> is a sequence: None is <<>>, Some(x) is <<x>>.             *)
(* An OsString / Path is a sequence of one-character strings.              *)
(***************************************************************************)
EXTENDS Integers, Sequences, FiniteSets, TLC

VARIABLES
    map,        \* INodeTable.map : INode -> INodeEntry
    cur_ino,    \* INodeTable.cur_ino
    last,       \* the last push_entry call, with its arguments and result
    looked,     \* the lookup / lookup_mut made since the last push_entry, if any
    returned,   \* the inodes returned by the successful push_entry calls, in order
    path,       \* the path argument the client passes to lookup / lookup_mut
    attrs,      \* a FileAttributes value
    alast,      \* the last call made on attrs, with the value before it
    pc,         \* where run_block is: "new", "awaiting", "dispatch", "returned", "panicked"
    inflight,   \* the request returned by next_request and not yet handled, if any
    nreq,       \* requests received from the transport so far
    nreplies,   \* replies (data or error) delivered to the transport so far
    hist,       \* the last request handled: its backend calls, the replies
                \* handed to (tried) and taken by (replies) the transport, and
                \* what the handler returned
    result,     \* the value run_block returned, if it has returned
    fault,      \* the transport failure met in the last step, if any
    closed,     \* the transport has signalled that there are no more requests
    debug_assertions, \* the build has debug assertions (and overflow checks)
    seed,       \* the order in which the HashMap of a directory's children iterates
    fsr,        \* the last MemFS request, with its result and the Runner's reply
    pg,         \* a client paging through a directory with readdir, if any
    file,       \* a File of MemFS: its data and the size of its attrs
    fio,        \* the last read or write on file, with the file before it
    handed      \* the inodes next_open_inode handed out, and whether it panicked

vars == <<map, cur_ino, last, looked, returned, path, attrs, alast,
          pc, inflight, nreq, nreplies, hist, result, fault, closed,
          debug_assertions, seed, fsr, pg, file, fio, handed>>

tableVars == <<map, cur_ino, last, looked, returned, path>>
attrVars  == <<attrs, alast>>
runnerVars == <<pc, inflight, nreq, nreplies, hist, result, fault, closed,
                debug_assertions>>
fsVars == <<seed, fsr, pg, file, fio, handed>>

----------------------------------------------------------------------------
(* Bounds *)

MaxPush == 3          \* push_entry calls in one behaviour of Spec
MaxPushLookup == 2    \* push_entry calls in one behaviour of SpecLookup
MaxPathLen == 3       \* characters in the path given to lookup
MaxVal == 1           \* attribute values given by a client are 0..MaxVal
MaxReq == 2           \* requests the transport delivers in one behaviour
MaxLen == 2           \* xattr lengths and requested max lengths are 0..MaxLen
MaxPushFs == 2        \* push_entry calls before the requests to MemFS
MaxOffset == 4        \* cursors of readdir requests are 0..MaxOffset
MaxIo == 2            \* file lengths, offsets and sizes of read and write are 0..MaxIo
MaxWrites == 2        \* write and setattr requests on the file in one behaviour
INodeBits == 8        \* bits of the inode counter
MaxAlloc == 3         \* push_entry calls in one behaviour of SpecInode
MaxSet == 2           \* setter calls on one FileAttributes value

----------------------------------------------------------------------------
(* Option *)

None == <<>>
Some(x) == <<x>>
Unwrap(o) == o[1]

----------------------------------------------------------------------------
(* INode (src/src/lib.rs) and ROOT_INODE (src/src/basic.rs) *)

ROOT_INODE == 1

\* The width of the inode counter. INode wraps a u64; the numbers of the
\* model are narrower than 64 bits, so the counter is given INodeBits bits,
\* and U64_MAX stands for u64::MAX: the largest value the counter can hold.
U64_MAX == 2^INodeBits - 1

\* INode::next_inode: self.0 + 1 on the counter's width. At U64_MAX the
\* addition overflows: it wraps to 0 in a build without overflow checks and
\* panics in a build with them (next_inode_overflows).
next_inode(ino) == (ino + 1) % (U64_MAX + 1)
next_inode_overflows(ino) == ino = U64_MAX

----------------------------------------------------------------------------
(* Names and paths *)

Sep == "/"
Dot == "."

PathChars == {Sep, Dot, "a"}

\* The names given to push_entry.
Names == { <<"a">>, <<"a", "a">>, <<Dot>>, <<Dot, Dot>> }

SeqsUpTo(S, n) == UNION { [1..k -> S] : k \in 0..n }

Paths == SeqsUpTo(PathChars, MaxPathLen)

\* Path::has_root on Unix: the path starts with a separator.
has_root(p) == Len(p) > 0 /\ p[1] = Sep

\* The maximal separator-free runs of p, in order (empty runs dropped).
RECURSIVE segments(_, _, _)
segments(p, i, cur) ==
    IF i > Len(p)
    THEN IF cur = <<>> THEN <<>> ELSE <<cur>>
    ELSE IF p[i] = Sep
         THEN IF cur = <<>> THEN segments(p, i + 1, <<>>)
                            ELSE <<cur>> \o segments(p, i + 1, <<>>)
         ELSE segments(p, i + 1, Append(cur, p[i]))

\* std::path::Path::components on Unix, each component as its as_os_str():
\* RootDir is "/", a leading "." of a relative path is CurDir ".", every other
\* "." is dropped, ".." is ParentDir "..", anything else is Normal.
components(p) ==
    LET segs == segments(p, 1, <<>>)
        keep(k) == segs[k] # <<Dot>> \/ (k = 1 /\ ~has_root(p))
        kept == SelectSeq([k \in 1..Len(segs) |-> <<k, segs[k]>>],
                          LAMBDA x : keep(x[1]))
        body == [k \in 1..Len(kept) |-> kept[k][2]]
    IN  IF has_root(p) THEN <<<<Sep>>>> \o body ELSE body

----------------------------------------------------------------------------
(* INodeEntry, Directory (src/src/basic.rs) *)

EmptyChildren == [n \in {} |-> ROOT_INODE]

\* The payloads push_entry is given: Directory::default() or a file.
Kinds == {"Directory", "File"}

\* Directory::default() as stored by INodeTable::default: no parent.
RootEntry == [parent |-> None, kind |-> "Directory", children |-> EmptyChildren]

\* Mutant of with_parent: the parent is not recorded.
with_parent_none(kind, parent) ==
    [parent |-> None, kind |-> kind, children |-> [n \in {} |-> ROOT_INODE]]

\* IntoINodeEntry::with_parent for a file payload and for Directory::default().
with_parent(kind, parent) ==
    [parent |-> Some(parent), kind |-> kind, children |-> EmptyChildren]

\* INodeEntry::as_dir / as_dir_mut: the directory's children, or None for a file.
as_dir(entry) ==
    IF entry.kind = "Directory" THEN Some(entry.children) ELSE None

\* Directory::get
dir_get(children, name) ==
    IF name \in DOMAIN children THEN Some(children[name]) ELSE None

----------------------------------------------------------------------------
(* INodeTable (src/src/basic.rs); a table is [map, cur_ino] *)

\* Mutant of Default: the counter starts at the root inode.
Default_root_counter ==
    [map |-> (ROOT_INODE :> RootEntry), cur_ino |-> ROOT_INODE]

\* INodeTable::default
Default == [map |-> (ROOT_INODE :> RootEntry), cur_ino |-> next_inode(ROOT_INODE)]

\* INodeTable::get / get_mut
get(tbl, ino) ==
    IF ino \in DOMAIN tbl.map THEN Some(tbl.map[ino]) ELSE None

\* Mutant of next_open_inode: the counter is not advanced.
next_open_inode_stuck(tbl) ==
    [ino |-> tbl.cur_ino, tbl |-> tbl]

\* INodeTable::next_open_inode: returns cur_ino and advances the counter.
next_open_inode(tbl) ==
    [ino |-> tbl.cur_ino, tbl |-> [tbl EXCEPT !.cur_ino = next_inode(tbl.cur_ino)]]

\* Mutant of push_entry: a parent that is a file is accepted.
push_entry_nodircheck(tbl, parent, name, kind) ==
    LET alloc == next_open_inode(tbl)
        ino == alloc.ino
        t1 == alloc.tbl
    IN  IF get(t1, parent) = None
        THEN [tbl |-> t1, ret |-> None]
        ELSE LET m1 == [t1.map EXCEPT ![parent].children = (name :> ino) @@ @]
                 m2 == (ino :> with_parent(kind, parent)) @@ m1
             IN  [tbl |-> [t1 EXCEPT !.map = m2], ret |-> Some(ino)]

\* Mutant of push_entry: the entry is stored before the parent is checked.
push_entry_insert_first(tbl, parent, name, kind) ==
    LET alloc == next_open_inode(tbl)
        ino == alloc.ino
        t1 == [alloc.tbl EXCEPT !.map = (ino :> with_parent(kind, parent)) @@ @]
    IN  IF get(t1, parent) = None
        THEN [tbl |-> t1, ret |-> None]
        ELSE IF as_dir(t1.map[parent]) = None
        THEN [tbl |-> t1, ret |-> None]
        ELSE [tbl |-> [t1 EXCEPT !.map[parent].children = (name :> ino) @@ @],
              ret |-> Some(ino)]

\* Mutant of push_entry: a name already among the children keeps its inode.
push_entry_noreplace(tbl, parent, name, kind) ==
    LET alloc == next_open_inode(tbl)
        ino == alloc.ino
        t1 == alloc.tbl
    IN  IF get(t1, parent) = None
        THEN [tbl |-> t1, ret |-> None]
        ELSE IF as_dir(t1.map[parent]) = None
        THEN [tbl |-> t1, ret |-> None]
        ELSE LET m1 == [t1.map EXCEPT ![parent].children = @ @@ (name :> ino)]
                 m2 == (ino :> with_parent(kind, parent)) @@ m1
             IN  [tbl |-> [t1 EXCEPT !.map = m2], ret |-> Some(ino)]

\* Mutant of push_entry: the name is inserted but the entry is not stored.
push_entry_nostore(tbl, parent, name, kind) ==
    LET alloc == next_open_inode(tbl)
        ino == alloc.ino
        t1 == alloc.tbl
    IN  IF get(t1, parent) = None
        THEN [tbl |-> t1, ret |-> None]
        ELSE IF as_dir(t1.map[parent]) = None
        THEN [tbl |-> t1, ret |-> None]
        ELSE LET m1 == [t1.map EXCEPT ![parent].children = (name :> ino) @@ @]
             IN  [tbl |-> [t1 EXCEPT !.map = m1], ret |-> Some(ino)]

\* Mutant of push_entry: the entry is stored with its own inode as parent.
push_entry_parent_self(tbl, parent, name, kind) ==
    LET alloc == next_open_inode(tbl)
        ino == alloc.ino
        t1 == alloc.tbl
    IN  IF get(t1, parent) = None
        THEN [tbl |-> t1, ret |-> None]
        ELSE IF as_dir(t1.map[parent]) = None
        THEN [tbl |-> t1, ret |-> None]
        ELSE LET m1 == [t1.map EXCEPT ![parent].children = (name :> ino) @@ @]
                 m2 == (ino :> with_parent(kind, ino)) @@ m1
             IN  [tbl |-> [t1 EXCEPT !.map = m2], ret |-> Some(ino)]

\* INodeTable::push_entry: the counter is advanced first, then the parent is
\* looked up; on success the name is inserted into the parent's children
\* (replacing an equal name) and the entry is stored under the new inode.
push_entry(tbl, parent, name, kind) ==
    LET alloc == next_open_inode(tbl)
        ino == alloc.ino
        t1 == alloc.tbl
    IN  IF get(t1, parent) = None
        THEN [tbl |-> t1, ret |-> None]
        ELSE IF as_dir(t1.map[parent]) = None
        THEN [tbl |-> t1, ret |-> None]
        ELSE LET m1 == [t1.map EXCEPT ![parent].children = (name :> ino) @@ @]
                 m2 == (ino :> with_parent(kind, parent)) @@ m1
             IN  [tbl |-> [t1 EXCEPT !.map = m2], ret |-> Some(ino)]

\* Mutant of lookup_from: the walk stops at a file and returns it.
RECURSIVE lookup_from_break(_, _, _, _)
lookup_from_break(tbl, comps, k, parent_ino) ==
    IF k > Len(comps)
    THEN Some([ino |-> parent_ino, entry |-> tbl.map[parent_ino]])
    ELSE IF comps[k] = <<Sep>> /\ parent_ino = ROOT_INODE
    THEN lookup_from_break(tbl, comps, k + 1, parent_ino)
    ELSE LET dir == as_dir(tbl.map[parent_ino])
         IN  IF dir = None
             THEN Some([ino |-> parent_ino, entry |-> tbl.map[parent_ino]])
             ELSE LET child == dir_get(Unwrap(dir), comps[k])
                  IN  IF child = None THEN None
                      ELSE IF get(tbl, Unwrap(child)) = None THEN None
                      ELSE lookup_from_break(tbl, comps, k + 1, Unwrap(child))

\* The loop of INodeTable::lookup from component k on, standing at parent_ino.
RECURSIVE lookup_from(_, _, _, _)
lookup_from(tbl, comps, k, parent_ino) ==
    IF k > Len(comps)
    THEN Some([ino |-> parent_ino, entry |-> tbl.map[parent_ino]])
    ELSE IF comps[k] = <<Sep>> /\ parent_ino = ROOT_INODE
    THEN lookup_from(tbl, comps, k + 1, parent_ino)
    ELSE LET dir == as_dir(tbl.map[parent_ino])
         IN  IF dir = None THEN None
             ELSE LET child == dir_get(Unwrap(dir), comps[k])
                  IN  IF child = None THEN None
                      ELSE IF get(tbl, Unwrap(child)) = None THEN None
                      ELSE lookup_from(tbl, comps, k + 1, Unwrap(child))

\* INodeTable::lookup
lookup(tbl, p) ==
    IF get(tbl, ROOT_INODE) = None THEN None
    ELSE lookup_from(tbl, components(p), 1, ROOT_INODE)

\* Mutant of lookup_mut: the walk is repeated without skipping the root
\* component, so the "/" of an absolute path is looked up as a name.
lookup_mut_noroot(tbl, p) ==
    IF has_root(p) /\ dir_get(tbl.map[ROOT_INODE].children, <<Sep>>) = None
    THEN None
    ELSE lookup(tbl, p)

\* INodeTable::lookup_mut: the inode of lookup, then get_mut on it.
lookup_mut(tbl, p) ==
    LET inode == IF lookup(tbl, p) = None THEN None
                 ELSE Some(Unwrap(lookup(tbl, p)).ino)
    IN  IF inode = None THEN None
        ELSE IF get(tbl, Unwrap(inode)) = None THEN None
        ELSE Some([ino |-> Unwrap(inode), entry |-> Unwrap(get(tbl, Unwrap(inode)))])

Table == [map |-> map, cur_ino |-> cur_ino]

----------------------------------------------------------------------------
(* Actions on the table *)

\* A client calls push_entry(parent, name, payload); limit bounds the calls.
PushEntry(limit) ==
    /\ cur_ino < next_inode(ROOT_INODE) + limit
    /\ \E parent \in ROOT_INODE..cur_ino, name \in Names, kind \in Kinds :
         LET r == push_entry(Table, parent, name, kind)
         IN  /\ map' = r.tbl.map
             /\ cur_ino' = r.tbl.cur_ino
             /\ last' = [op |-> "push_entry", parent |-> parent, name |-> name,
                         kind |-> kind, ret |-> r.ret]
             /\ returned' = IF r.ret = None THEN returned
                            ELSE Append(returned, Unwrap(r.ret))
    /\ looked' = None
    /\ UNCHANGED <<path, attrVars, runnerVars, fsVars>>

\* A client calls lookup(path) and lookup_mut(path) on the current table.
Lookup ==
    /\ looked' = Some([path |-> path, ret |-> lookup(Table, path),
                       ret_mut |-> lookup_mut(Table, path)])
    /\ UNCHANGED <<map, cur_ino, last, returned, path, attrVars, runnerVars, fsVars>>

----------------------------------------------------------------------------
(* FileAttributes and SetFileAttributes (src/src/attrs.rs, src/src/lib.rs) *)

AttrFields == {"mode", "size", "nlink", "uid", "gid", "rdev", "blksize",
               "blocks", "atime", "mtime", "ctime", "ttl"}

\* The fields of SetFileAttributes.
SetFields == {"mode", "size", "uid", "gid", "atime", "mtime", "ctime"}

DefaultSize == 4096
DefaultTtl == 1

AttrVals == 0..MaxVal

\* FileAttributes::builder().mode(mode).build(): every other field at its default.
builder(mode) ==
    [mode |-> mode, size |-> DefaultSize, nlink |-> 0, uid |-> 0, gid |-> 0,
     rdev |-> 0, blksize |-> 0, blocks |-> 0, atime |-> 0, mtime |-> 0,
     ctime |-> 0, ttl |-> DefaultTtl]

\* The builder with every optional setter called with the value v.
builder_all(mode, v) ==
    [f \in AttrFields |-> IF f = "mode" THEN mode ELSE v]

BuiltAttrs ==
    { builder(m) : m \in AttrVals } \cup
    { builder_all(m, v) : m \in AttrVals, v \in AttrVals }

\* Every SetFileAttributes: each field None or Some(v).
Updates == [SetFields -> {None} \cup { Some(v) : v \in AttrVals }]

\* Mutant of copy_attr: the update's value is added to the field.
copy_attr_add(self, update, name) ==
    IF update[name] # None
    THEN [self EXCEPT ![name] = self[name] + Unwrap(update[name])]
    ELSE self

\* macro copy_attr!($name): if let Some(attr) = $name { self.$name = attr; }
copy_attr(self, update, name) ==
    IF update[name] # None THEN [self EXCEPT ![name] = Unwrap(update[name])]
    ELSE self

\* Mutant of apply_attrs: ctime is not copied.
apply_attrs_no_ctime(self, update) ==
    copy_attr(copy_attr(copy_attr(copy_attr(copy_attr(copy_attr(
        self, update, "mode"), update, "size"), update, "uid"),
        update, "gid"), update, "atime"), update, "mtime")

\* FileAttributes::apply_attrs: copy_attr! for mode, size, uid, gid, atime,
\* mtime, ctime, in this order. The result is self after the call (attrs.rs)
\* and the value returned (lib.rs).
apply_attrs(self, update) ==
    LET s1 == copy_attr(self, update, "mode")
        s2 == copy_attr(s1, update, "size")
        s3 == copy_attr(s2, update, "uid")
        s4 == copy_attr(s3, update, "gid")
        s5 == copy_attr(s4, update, "atime")
        s6 == copy_attr(s5, update, "mtime")
        s7 == copy_attr(s6, update, "ctime")
    IN  s7

\* FileAttributes::set_mode, set_size, .., set_ttl: self.$name = value.
set_attr(self, name, value) == [self EXCEPT ![name] = value]

----------------------------------------------------------------------------
(* Actions on a FileAttributes value *)

\* A client calls one of the setters set_mode, .., set_ttl on the value it
\* built, or on the value its earlier setter calls left.
SetField ==
    /\ alast.op \in {"build", "set"}
    /\ (IF alast.op = "build" THEN 0 ELSE alast.sets) < MaxSet
    /\ \E name \in AttrFields, value \in AttrVals :
         /\ attrs' = set_attr(attrs, name, value)
         /\ alast' = [op |-> "set", name |-> name, value |-> value,
                      sets |-> 1 + (IF alast.op = "build" THEN 0
                                    ELSE alast.sets)]
    /\ UNCHANGED <<tableVars, runnerVars, fsVars>>

\* A client calls attrs.apply_attrs(update) on a freshly built value.
ApplyAttrs ==
    /\ alast.op = "build"
    /\ \E update \in Updates :
         /\ attrs' = apply_attrs(attrs, update)
         /\ alast' = [op |-> "apply_attrs", update |-> update, before |-> attrs,
                      calls |-> 1]
    /\ UNCHANGED <<tableVars, runnerVars, fsVars>>

\* The client applies the same update a second time.
ApplyAgain ==
    /\ alast.op = "apply_attrs"
    /\ alast.calls = 1
    /\ attrs' = apply_attrs(attrs, alast.update)
    /\ alast' = [op |-> "apply_attrs", update |-> alast.update,
                 before |-> attrs, calls |-> 2, first |-> alast.before]
    /\ UNCHANGED <<tableVars, runnerVars, fsVars>>

----------------------------------------------------------------------------
(* The Runner (src/src/runner.rs) and the errors (src/src/error.rs) *)

\* The variants of FSError a Filesystem method can return.
FSErrors == {"NoEntry", "NotFile", "NotDirectory", "InvalidFlags",
             "NotImplemented"}

\* FSError::InvalidFlags has no arm in error.rs; its code is the one
\* handle_setxattr replies for invalid flags.
InvalidFlagsErrno == "EINVAL"

\* Mutant of to_libc_error: NotFile and NotDirectory share ENOTDIR.
to_libc_error_notdir(e) ==
    CASE e = "NoEntry" -> "ENOENT"
      [] e = "NotFile" -> "ENOTDIR"
      [] e = "NotDirectory" -> "ENOTDIR"
      [] e = "NotImplemented" -> "ENOSYS"
      [] e = "InvalidFlags" -> InvalidFlagsErrno

\* FSError::to_libc_error
to_libc_error(e) ==
    CASE e = "NoEntry" -> "ENOENT"
      [] e = "NotFile" -> "EINVAL"
      [] e = "NotDirectory" -> "ENOTDIR"
      [] e = "NotImplemented" -> "ENOSYS"
      [] e = "InvalidFlags" -> InvalidFlagsErrno

\* libc::XATTR_CREATE and libc::XATTR_REPLACE
XATTR_CREATE == 1
XATTR_REPLACE == 2

\* The flag words of a setxattr request: every combination of the two bits.
FlagWords == 0..(XATTR_CREATE + XATTR_REPLACE)

\* SetXAttrFlags::from_libc_type: exactly one of the create and replace bits.
from_libc_type(flags) ==
    IF flags = XATTR_CREATE THEN Some("Create")
    ELSE IF flags = XATTR_REPLACE THEN Some("Replace")
    ELSE None

\* The operations run_block has a handler with a Filesystem method for, and
\* the method each handler calls.
HandledOps == {"Open", "Opendir", "Setxattr", "Getxattr", "Listxattr",
               "Lookup", "Getattr", "Setattr", "Readdir", "Read", "Write"}

Method(op) ==
    CASE op = "Open" -> "open"
      [] op = "Opendir" -> "open_dir"
      [] op = "Setxattr" -> "setxattr"
      [] op = "Getxattr" -> "getxattr"
      [] op = "Listxattr" -> "listxattrs"
      [] op = "Lookup" -> "lookup"
      [] op = "Getattr" -> "getattr"
      [] op = "Setattr" -> "setattr"
      [] op = "Readdir" -> "readdir"
      [] op = "Read" -> "read"
      [] op = "Write" -> "write"

\* A request as the transport delivers it. op "Other" is any operation with no
\* arm in run_block's match; op "Undecodable" is a request whose operation()
\* fails. size is the max length of getxattr / listxattr, flags the flag word
\* of setxattr, mode the ReaddirMode of readdir.
Req(op, size, flags, mode) ==
    [op |-> op, size |-> size, flags |-> flags, mode |-> mode]

Requests ==
    { Req(op, 0, 0, "Normal") :
        op \in (HandledOps \ {"Setxattr", "Getxattr", "Listxattr"})
               \cup {"Other", "Undecodable"} } \cup
    { Req("Readdir", 0, 0, "Plus") } \cup
    { Req("Setxattr", 0, f, "Normal") : f \in FlagWords } \cup
    { Req(op, s, 0, "Normal") : op \in {"Getxattr", "Listxattr"},
                                s \in 0..MaxLen }

\* What a Filesystem method returns: Err(e), or Ok(obj). For getxattr and
\* listxattrs obj has the bytes returned (data_len of them, a part of the
\* value) and the full length of the value (full_len).
FsErr(e) == [ok |-> FALSE, err |-> e, data_len |-> 0, full_len |-> 0]
FsOk(data_len, full_len) ==
    [ok |-> TRUE, err |-> "", data_len |-> data_len, full_len |-> full_len]

FsResults(op) ==
    { FsErr(e) : e \in FSErrors } \cup
    IF op \in {"Getxattr", "Listxattr"}
    THEN { FsOk(x[1], x[2]) :
             x \in { y \in (0..MaxLen) \X (0..MaxLen) : y[1] <= y[2] } }
    ELSE { FsOk(0, 0) }

\* A reply handed to the transport: an error code (reply_error), a length-only
\* XattrOut, a byte payload, or one of the other reply types.
ErrorReply(code) == [kind |-> "error", code |-> code, len |-> 0]
SizeReply(len) == [kind |-> "size", code |-> "", len |-> len]
DataReply(len) == [kind |-> "data", code |-> "", len |-> len]
OutReply == [kind |-> "out", code |-> "", len |-> 0]

\* req.reply(res).map_err(PolyfuseError::ReplyError)?
req_reply(res, send_ok) ==
    [tried |-> <<res>>, ret |-> IF send_ok THEN "Ok" ELSE "ReplyError"]

\* req.reply_error(code).map_err(PolyfuseError::ReplyErrError)?
req_reply_error(code, send_ok) ==
    [tried |-> <<ErrorReply(code)>>,
     ret |-> IF send_ok THEN "Ok" ELSE "ReplyErrError"]

\* A panic before anything is handed to the transport.
panic == [tried |-> <<>>, ret |-> "panic"]

\* What a handler did: the Filesystem calls it made, the result the call
\* gave, the replies it handed to the transport, and what it returned
\* ("Ok", the PolyfuseError, or "panic").
Handled(calls, fs, a) ==
    [calls |-> calls, fs |-> fs, tried |-> a.tried, ret |-> a.ret]

Call(method, flags) == [method |-> method, flags |-> flags]

\* The match on the method's result that every handler ends with:
\* Ok(obj) => req.reply(res), Err(e) => req.reply_error(e.to_libc_error()).
answer(fsres, res, send_ok) ==
    IF fsres.ok THEN req_reply(res, send_ok)
    ELSE req_reply_error(to_libc_error(fsres.err), send_ok)

handle_open(req, fsres, send_ok) ==
    Handled(<<Call("open", "")>>, Some(fsres), answer(fsres, OutReply, send_ok))

handle_opendir(req, fsres, send_ok) ==
    Handled(<<Call("open_dir", "")>>, Some(fsres),
            answer(fsres, OutReply, send_ok))

\* Mutant of handle_setxattr: flags that do not decode are passed on as Create.
handle_setxattr_default(req, fsres, send_ok) ==
    LET flags == from_libc_type(req.flags)
    IN  Handled(<<Call("setxattr",
                       IF flags = None THEN "Create" ELSE Unwrap(flags))>>,
                Some(fsres), answer(fsres, OutReply, send_ok))

handle_setxattr(req, fsres, send_ok) ==
    LET flags == from_libc_type(req.flags)
    IN  IF flags = None
        THEN Handled(<<>>, None, req_reply_error("EINVAL", send_ok))
        ELSE Handled(<<Call("setxattr", Unwrap(flags))>>, Some(fsres),
                     answer(fsres, OutReply, send_ok))

\* Mutant of handle_getxattr: the length-only reply carries the length of the
\* returned bytes.
handle_getxattr_datalen(req, fsres, send_ok) ==
    Handled(<<Call("getxattr", "")>>, Some(fsres),
            IF fsres.ok /\ req.size = 0
            THEN req_reply(SizeReply(fsres.data_len), send_ok)
            ELSE IF fsres.ok /\ fsres.data_len > req.size THEN panic
            ELSE answer(fsres, DataReply(fsres.data_len), send_ok))

\* assert!(obj.data.len() <= size) panics in every build.
handle_getxattr(req, fsres, send_ok) ==
    Handled(<<Call("getxattr", "")>>, Some(fsres),
            IF fsres.ok /\ req.size = 0
            THEN req_reply(SizeReply(fsres.full_len), send_ok)
            ELSE IF fsres.ok /\ fsres.data_len > req.size THEN panic
            ELSE answer(fsres, DataReply(fsres.data_len), send_ok))

\* debug_assert!(obj.0.len() <= size) panics only with debug assertions.
handle_listxattr(req, fsres, send_ok) ==
    Handled(<<Call("listxattrs", "")>>, Some(fsres),
            IF fsres.ok /\ req.size = 0
            THEN req_reply(SizeReply(fsres.full_len), send_ok)
            ELSE IF fsres.ok /\ fsres.data_len > req.size /\ debug_assertions
            THEN panic
            ELSE answer(fsres, DataReply(fsres.data_len), send_ok))

\* Mutant of handle_lookup: the FSError is returned with `?` instead of
\* being replied.
handle_lookup_propagate(req, fsres, send_ok) ==
    Handled(<<Call("lookup", "")>>, Some(fsres),
            IF fsres.ok THEN req_reply(OutReply, send_ok)
            ELSE [tried |-> <<>>, ret |-> "ReplyErrError"])

handle_lookup(req, fsres, send_ok) ==
    Handled(<<Call("lookup", "")>>, Some(fsres),
            answer(fsres, OutReply, send_ok))

handle_getattr(req, fsres, send_ok) ==
    Handled(<<Call("getattr", "")>>, Some(fsres),
            answer(fsres, OutReply, send_ok))

\* Mutant of handle_setattr: after setattr the handler also calls getattr.
handle_setattr_twice(req, fsres, send_ok) ==
    Handled(<<Call("setattr", ""), Call("getattr", "")>>, Some(fsres),
            answer(fsres, OutReply, send_ok))

handle_setattr(req, fsres, send_ok) ==
    Handled(<<Call("setattr", "")>>, Some(fsres),
            answer(fsres, OutReply, send_ok))

\* Mutant of handle_readdir: the mode is not looked at.
handle_readdir_anymode(req, fsres, send_ok) ==
    Handled(<<Call("readdir", "")>>, Some(fsres),
            answer(fsres, OutReply, send_ok))

handle_readdir(req, fsres, send_ok) ==
    IF req.mode = "Plus"
    THEN Handled(<<>>, None, req_reply_error("ENOSYS", send_ok))
    ELSE Handled(<<Call("readdir", "")>>, Some(fsres),
                 answer(fsres, OutReply, send_ok))

handle_read(req, fsres, send_ok) ==
    Handled(<<Call("read", "")>>, Some(fsres),
            answer(fsres, DataReply(0), send_ok))

handle_write(req, fsres, send_ok) ==
    Handled(<<Call("write", "")>>, Some(fsres),
            answer(fsres, OutReply, send_ok))

\* The last arm of run_block's match: reply_error(NotImplemented).
handle_other(req, fsres, send_ok) ==
    Handled(<<>>, None,
            req_reply_error(to_libc_error("NotImplemented"), send_ok))

----------------------------------------------------------------------------
(* Actions of run_block *)

\* Mutant of Return: an error of a handler is dropped and the loop goes on.
Return_swallow(h) ==
    /\ pc' = IF h.ret = "panic" THEN "panicked" ELSE "awaiting"
    /\ result' = None

\* The `?` after a handler: Ok(()) goes back to next_request, an error is
\* returned from run_block, a panic unwinds.
Return(h) ==
    /\ pc' = CASE h.ret = "Ok" -> "awaiting"
               [] h.ret = "panic" -> "panicked"
               [] OTHER -> "returned"
    /\ result' = IF h.ret \in {"Ok", "panic"} THEN None ELSE Some(h.ret)

\* req.operation() decodes to the operation op.
Decoded(op) ==
    /\ pc = "dispatch"
    /\ Unwrap(inflight).op = op

\* The end of one arm of the match in run_block, after the handler ran for
\* the current request and gave h; send_ok says whether the transport took
\* the reply.
Finish(h, send_ok) ==
    LET sent == IF send_ok THEN h.tried ELSE <<>>
    IN  /\ hist' = Some([req |-> Unwrap(inflight), fs |-> h.fs,
                         calls |-> h.calls, tried |-> h.tried,
                         replies |-> sent, ret |-> h.ret])
        /\ nreplies' = nreplies + Len(sent)
        /\ fault' = IF h.tried # <<>> /\ ~send_ok THEN Some("send") ELSE None
        /\ Return(h)
        /\ inflight' = None
        /\ UNCHANGED <<nreq, closed, debug_assertions, tableVars, attrVars, fsVars>>

\* Session::mount(..)?
Mount ==
    /\ pc = "new"
    /\ \E ok \in BOOLEAN :
         IF ok
         THEN /\ pc' = "awaiting"
              /\ UNCHANGED <<result, fault>>
         ELSE /\ pc' = "returned"
              /\ result' = Some("IoError")
              /\ fault' = Some("mount")
    /\ UNCHANGED <<inflight, nreq, nreplies, hist, closed, debug_assertions,
                   tableVars, attrVars, fsVars>>

\* session.next_request()? returns Some(req).
ReceiveRequest ==
    /\ pc = "awaiting"
    /\ nreq < MaxReq
    /\ \E req \in Requests : inflight' = Some(req)
    /\ nreq' = nreq + 1
    /\ pc' = "dispatch"
    /\ fault' = None
    /\ UNCHANGED <<nreplies, hist, result, closed, debug_assertions,
                   tableVars, attrVars, fsVars>>

\* session.next_request()? returns None: the loop ends and run_block reaches
\* the todo!() after it.
ReceiveEnd ==
    /\ pc = "awaiting"
    /\ closed' = TRUE
    /\ pc' = "panicked"
    /\ fault' = None
    /\ UNCHANGED <<inflight, nreq, nreplies, hist, result, debug_assertions,
                   tableVars, attrVars, fsVars>>

\* session.next_request()? returns an io::Error.
ReceiveFail ==
    /\ pc = "awaiting"
    /\ pc' = "returned"
    /\ result' = Some("IoError")
    /\ fault' = Some("receive")
    /\ UNCHANGED <<inflight, nreq, nreplies, hist, closed, debug_assertions,
                   tableVars, attrVars, fsVars>>

\* req.operation().map_err(PolyfuseError::DecodeError)? fails.
DecodeFail ==
    /\ Decoded("Undecodable")
    /\ pc' = "returned"
    /\ result' = Some("DecodeError")
    /\ fault' = Some("decode")
    /\ hist' = None
    /\ inflight' = None
    /\ UNCHANGED <<nreq, nreplies, closed, debug_assertions, tableVars,
                   attrVars, fsVars>>

HandleOpen ==
    /\ Decoded("Open")
    /\ \E fsres \in FsResults("Open"), send_ok \in BOOLEAN :
         Finish(handle_open(Unwrap(inflight), fsres, send_ok), send_ok)

HandleOpendir ==
    /\ Decoded("Opendir")
    /\ \E fsres \in FsResults("Opendir"), send_ok \in BOOLEAN :
         Finish(handle_opendir(Unwrap(inflight), fsres, send_ok), send_ok)

HandleSetxattr ==
    /\ Decoded("Setxattr")
    /\ \E fsres \in FsResults("Setxattr"), send_ok \in BOOLEAN :
         Finish(handle_setxattr(Unwrap(inflight), fsres, send_ok), send_ok)

HandleGetxattr ==
    /\ Decoded("Getxattr")
    /\ \E fsres \in FsResults("Getxattr"), send_ok \in BOOLEAN :
         Finish(handle_getxattr(Unwrap(inflight), fsres, send_ok), send_ok)

HandleListxattr ==
    /\ Decoded("Listxattr")
    /\ \E fsres \in FsResults("Listxattr"), send_ok \in BOOLEAN :
         Finish(handle_listxattr(Unwrap(inflight), fsres, send_ok), send_ok)

HandleLookup ==
    /\ Decoded("Lookup")
    /\ \E fsres \in FsResults("Lookup"), send_ok \in BOOLEAN :
         Finish(handle_lookup(Unwrap(inflight), fsres, send_ok), send_ok)

HandleGetattr ==
    /\ Decoded("Getattr")
    /\ \E fsres \in FsResults("Getattr"), send_ok \in BOOLEAN :
         Finish(handle_getattr(Unwrap(inflight), fsres, send_ok), send_ok)

HandleSetattr ==
    /\ Decoded("Setattr")
    /\ \E fsres \in FsResults("Setattr"), send_ok \in BOOLEAN :
         Finish(handle_setattr(Unwrap(inflight), fsres, send_ok), send_ok)

HandleReaddir ==
    /\ Decoded("Readdir")
    /\ \E fsres \in FsResults("Readdir"), send_ok \in BOOLEAN :
         Finish(handle_readdir(Unwrap(inflight), fsres, send_ok), send_ok)

HandleRead ==
    /\ Decoded("Read")
    /\ \E fsres \in FsResults("Read"), send_ok \in BOOLEAN :
         Finish(handle_read(Unwrap(inflight), fsres, send_ok), send_ok)

HandleWrite ==
    /\ Decoded("Write")
    /\ \E fsres \in FsResults("Write"), send_ok \in BOOLEAN :
         Finish(handle_write(Unwrap(inflight), fsres, send_ok), send_ok)

HandleOther ==
    /\ Decoded("Other")
    /\ \E fsres \in FsResults("Other"), send_ok \in BOOLEAN :
         Finish(handle_other(Unwrap(inflight), fsres, send_ok), send_ok)


\* JoinHandle::join on the thread run() spawned: the thread's value
\* (self, result) when run_block returned, the panic when it panicked.
run_join ==
    CASE pc = "returned" ->
           Some([ok |-> TRUE, runner |-> "self", result |-> result])
      [] pc = "panicked" ->
           Some([ok |-> FALSE, runner |-> "", result |-> None])
      [] OTHER -> None

----------------------------------------------------------------------------
(* MemFS (src/examples/memfs.rs) on the table, and the Runner's readdir reply *)

\* The names the clients of MemFS push: two short ones and one of nine bytes.
LongName == <<"l", "o", "n", "g", "-", "n", "a", "m", "e">>
FsNames == {<<"a">>, <<"b">>, LongName}

\* HashMap::iter of DirChildren: some order that stays the same while the map
\* is not modified. seed ranks every name; a directory iterates its children
\* by that rank.
HashOrders ==
    { s \in [1..Cardinality(FsNames) -> FsNames] :
        \A i, j \in DOMAIN s : i # j => s[i] # s[j] }

\* Directory::children: the (name, inode) pairs in iteration order.
children_iter(children, order) ==
    LET present(n) == n \in DOMAIN children
        names == SelectSeq(order, present)
    IN  [i \in 1..Len(names) |-> <<names[i], children[names[i]]>>]

\* INodeEntry::file_type
file_type(entry) ==
    IF entry.kind = "Directory" THEN "Directory" ELSE "Regular"

\* INodeEntry::getattrs: the attributes stored in the payload of the entry.
\* They stand here as the inode that owns them and the payload's type.
getattrs(tbl, ino) == [owner |-> ino, of |-> tbl.map[ino].kind]

\* FSResult: Ok(val) or Err(err)
MemOk(val) == [ok |-> TRUE, err |-> "", val |-> val]
MemErr(e) == [ok |-> FALSE, err |-> e, val |-> <<>>]

\* Mutant of memfs_lookup: a parent that is a file gives NoEntry.
memfs_lookup_noentry(tbl, parent, name) ==
    IF get(tbl, parent) = None THEN MemErr("NoEntry")
    ELSE IF as_dir(Unwrap(get(tbl, parent))) = None THEN MemErr("NoEntry")
    ELSE LET child == dir_get(Unwrap(as_dir(Unwrap(get(tbl, parent)))), name)
         IN  IF child = None \/ get(tbl, Unwrap(child)) = None
             THEN MemErr("NoEntry")
             ELSE MemOk([inode |-> Unwrap(child),
                         attributes |-> getattrs(tbl, Unwrap(child))])

\* MemFS::lookup
memfs_lookup(tbl, parent, name) ==
    IF get(tbl, parent) = None THEN MemErr("NoEntry")
    ELSE IF as_dir(Unwrap(get(tbl, parent))) = None
    THEN MemErr("NotDirectory")
    ELSE LET child == dir_get(Unwrap(as_dir(Unwrap(get(tbl, parent)))), name)
         IN  IF child = None \/ get(tbl, Unwrap(child)) = None
             THEN MemErr("NoEntry")
             ELSE MemOk([inode |-> Unwrap(child),
                         attributes |-> getattrs(tbl, Unwrap(child))])

\* DirEntry::builder().name(..).inode(..).typ(..).offset(..).build()
DirEntry(name, inode, typ, offset) ==
    [name |-> name, inode |-> inode, typ |-> typ, offset |-> offset]

\* Mutant of skip: one entry fewer than n is dropped.
skip_one_less(s, n) ==
    IF n <= 1 THEN s
    ELSE IF n - 1 >= Len(s) THEN <<>> ELSE SubSeq(s, n, Len(s))

\* Iterator::skip(n)
skip(s, n) == SubSeq(s, n + 1, Len(s))

\* Mutant of memfs_readdir: the children's offsets start at 2.
memfs_readdir_off2(tbl, order, dir_ino, offset) ==
    IF get(tbl, dir_ino) = None THEN MemErr("NoEntry")
    ELSE IF as_dir(Unwrap(get(tbl, dir_ino))) = None
    THEN MemErr("NotDirectory")
    ELSE LET dir_main == Unwrap(get(tbl, dir_ino))
             it == children_iter(Unwrap(as_dir(dir_main)), order)
             dots == << DirEntry(<<Dot>>, dir_ino, "Directory", 1),
                        DirEntry(<<Dot, Dot>>,
                                 IF dir_main.parent = None THEN 2
                                 ELSE Unwrap(dir_main.parent),
                                 "Directory", 2) >>
             kids == [i \in 1..Len(it) |->
                        DirEntry(it[i][1], it[i][2],
                                 file_type(Unwrap(get(tbl, it[i][2]))),
                                 (i - 1) + 2)]
         IN  MemOk(skip(dots \o kids, offset))

\* Mutant of memfs_readdir: the cursor is not looked at.
memfs_readdir_noskip(tbl, order, dir_ino, offset) ==
    IF get(tbl, dir_ino) = None THEN MemErr("NoEntry")
    ELSE IF as_dir(Unwrap(get(tbl, dir_ino))) = None
    THEN MemErr("NotDirectory")
    ELSE LET dir_main == Unwrap(get(tbl, dir_ino))
             it == children_iter(Unwrap(as_dir(dir_main)), order)
             dots == << DirEntry(<<Dot>>, dir_ino, "Directory", 1),
                        DirEntry(<<Dot, Dot>>,
                                 IF dir_main.parent = None THEN 2
                                 ELSE Unwrap(dir_main.parent),
                                 "Directory", 2) >>
             kids == [i \in 1..Len(it) |->
                        DirEntry(it[i][1], it[i][2],
                                 file_type(Unwrap(get(tbl, it[i][2]))),
                                 (i - 1) + 3)]
         IN  MemOk(dots \o kids)

\* MemFS::readdir: "." (offset 1), ".." (offset 2, the parent, or
\* 2u64.into() when there is none), then the children with offsets from 3,
\* and the first `offset` entries of this chain skipped.
memfs_readdir(tbl, order, dir_ino, offset) ==
    IF get(tbl, dir_ino) = None THEN MemErr("NoEntry")
    ELSE IF as_dir(Unwrap(get(tbl, dir_ino))) = None
    THEN MemErr("NotDirectory")
    ELSE LET dir_main == Unwrap(get(tbl, dir_ino))
             it == children_iter(Unwrap(as_dir(dir_main)), order)
             dots == << DirEntry(<<Dot>>, dir_ino, "Directory", 1),
                        DirEntry(<<Dot, Dot>>,
                                 IF dir_main.parent = None THEN 2
                                 ELSE Unwrap(dir_main.parent),
                                 "Directory", 2) >>
             kids == [i \in 1..Len(it) |->
                        DirEntry(it[i][1], it[i][2],
                                 file_type(Unwrap(get(tbl, it[i][2]))),
                                 (i - 1) + 3)]
         IN  MemOk(skip(dots \o kids, offset))

\* The size of one entry in a readdir reply: the fuse_dirent header and the
\* name, padded to the alignment of directory entries.
FuseDirentSize == 24
DirentAlign == 8
entry_size(e) ==
    ((FuseDirentSize + Len(e.name) + DirentAlign - 1) \div DirentAlign)
        * DirentAlign

\* reply::ReaddirOut::new(capacity)
ReaddirOut_new(capacity) == [cap |-> capacity, len |-> 0, entries |-> <<>>]

\* reply::ReaddirOut::entry of polyfuse: when the entry does not fit in what
\* is left of the capacity it is not added and the call returns true (the
\* buffer is full); else the entry is added and the call returns false.
ReaddirOut_entry(rep, e) ==
    IF rep.cap - rep.len < entry_size(e)
    THEN [rep |-> rep, full |-> TRUE]
    ELSE [rep |-> [rep EXCEPT !.len = @ + entry_size(e),
                              !.entries = Append(@, e)],
          full |-> FALSE]

\* entries.into_iter().take_while(|x| rep.entry(..)).for_each(|_| {}):
\* rep.entry is called on the entries in order for as long as it returns true.
RECURSIVE take_while_entry(_, _, _)
take_while_entry(entries, i, rep) ==
    IF i > Len(entries) THEN rep
    ELSE LET r == ReaddirOut_entry(rep, entries[i])
         IN  IF r.full THEN take_while_entry(entries, i + 1, r.rep)
             ELSE r.rep

\* The entries in the reply::ReaddirOut that handle_readdir replies for the
\* backend's Ok(entries) and the request's op.size().
readdir_reply(entries, size) ==
    take_while_entry(entries, 1, ReaddirOut_new(size)).entries

\* The buffer sizes of readdir requests: room for one short entry, for two,
\* and for a whole listing.
BufSizes == {32, 64, 4096}

----------------------------------------------------------------------------
(* Actions of the clients of MemFS *)

\* fs.inodes.push_entry(parent, name, payload), as main does before the
\* Runner starts.
FsPush ==
    /\ cur_ino < next_inode(ROOT_INODE) + MaxPushFs
    /\ pg = None
    /\ \E parent \in ROOT_INODE..cur_ino, name \in FsNames, kind \in Kinds :
         LET r == push_entry(Table, parent, name, kind)
         IN  /\ map' = r.tbl.map
             /\ cur_ino' = r.tbl.cur_ino
    /\ fsr' = None
    /\ UNCHANGED <<last, looked, returned, path, attrVars, runnerVars, seed,
                   pg, file, fio, handed>>

\* A lookup request: MemFS::lookup(parent, name). It does not change the
\* table, so the requests are looked at one per table state.
FsLookup ==
    /\ pg = None
    /\ fsr = None
    /\ \E parent \in 0..cur_ino, name \in FsNames :
         fsr' = Some([op |-> "lookup", ino |-> parent, name |-> name,
                      ret |-> memfs_lookup(Table, parent, name)])
    /\ UNCHANGED <<tableVars, attrVars, runnerVars, seed, pg, file, fio,
                   handed>>

\* A readdir request (not in plus mode) handled by handle_readdir with MemFS
\* as the backend: MemFS::readdir(ino, offset), then the reply packed into
\* op.size() bytes. It does not change the table either.
FsReaddir ==
    /\ pg = None
    /\ fsr = None
    /\ \E ino \in 0..cur_ino, offset \in 0..MaxOffset, size \in BufSizes :
         LET r == memfs_readdir(Table, seed, ino, offset)
         IN  fsr' = Some([op |-> "readdir", ino |-> ino, offset |-> offset,
                          size |-> size, ret |-> r,
                          reply |-> IF r.ok THEN readdir_reply(r.val, size)
                                    ELSE <<>>])
    /\ UNCHANGED <<tableVars, attrVars, runnerVars, seed, pg, file, fio,
                   handed>>

\* The buffer sizes of a client that pages through a directory: every entry
\* of the directory fits in the buffer, whatever its name (the longest takes
\* entry_size = 40 bytes).
PageSizes == {64, 4096}

\* The most requests a paging client is followed for.
MaxPageReq == MaxPushFs + 4

\* A client opens a directory to page through it from cursor 0; the table is
\* not modified from here on.
PageStart ==
    /\ pg = None
    /\ \E dir \in ROOT_INODE..cur_ino, size \in PageSizes :
         /\ memfs_readdir(Table, seed, dir, 0).ok
         /\ pg' = Some([dir |-> dir, size |-> size, cursor |-> 0,
                        got |-> <<>>, done |-> FALSE, requests |-> 0])
    /\ fsr' = None
    /\ UNCHANGED <<tableVars, attrVars, runnerVars, seed, file, fio, handed>>

\* The next readdir request of the paging client, handled by handle_readdir
\* with MemFS as the backend: an empty reply ends the paging, else the client
\* keeps the entries and takes the offset of the last one as its cursor.
PageNext ==
    /\ pg # None
    /\ LET p == Unwrap(pg)
           reply == readdir_reply(
                        memfs_readdir(Table, seed, p.dir, p.cursor).val,
                        p.size)
       IN  /\ ~p.done
           /\ p.requests < MaxPageReq
           /\ pg' = Some(IF reply = <<>>
                         THEN [p EXCEPT !.done = TRUE,
                                        !.requests = @ + 1]
                         ELSE [p EXCEPT !.got = @ \o reply,
                                        !.cursor = reply[Len(reply)].offset,
                                        !.requests = @ + 1])
    /\ UNCHANGED <<tableVars, attrVars, runnerVars, seed, fsr, file, fio,
                   handed>>

----------------------------------------------------------------------------
(* File of MemFS: read and write (src/examples/memfs.rs) *)

Min(a, b) == IF a < b THEN a ELSE b
Max(a, b) == IF a > b THEN a ELSE b

\* File::new(data): the size of the attrs is data.len().
File_new(data) == [data |-> data, size |-> Len(data)]

\* The data of the files the clients create, and the bytes a write is given:
\* byte i of a new file is i, byte i of the input of a write is 10 + i.
NewData(len) == [i \in 1..len |-> i]
Input(len) == [i \in 1..len |-> 10 + i]

\* The result of a call on a file: Ok(val), or the panic of the thread.
IoOk(val) == [outcome |-> "Ok", val |-> val]
IoPanic == [outcome |-> "panic", val |-> <<>>]

\* MemFS::read on the File of an inode: file.data.get(offset..).unwrap_or(&[])
\* and then the slice [..min(file.size(), size)] of it, which panics when it
\* is longer than what is left after offset.
memfs_read(f, offset, size) ==
    LET content == IF offset <= Len(f.data)
                   THEN SubSeq(f.data, offset + 1, Len(f.data))
                   ELSE <<>>
        n == Min(f.size, size)
    IN  IF n > Len(content) THEN IoPanic
        ELSE IoOk(SubSeq(content, 1, n))

\* Vec::resize(new_len, 0)
resize(data, new_len) ==
    [i \in 1..new_len |-> IF i <= Len(data) THEN data[i] ELSE 0]

\* What a write leaves of the file when the input has fewer than size bytes:
\* the data is already resized, read_exact fails and its unwrap panics. What
\* read_exact has put into the range by then is unspecified; it has stored
\* the first `stored` bytes of the input (none for a slice reader, all there
\* are for a reader that copies until the end of its input).
short_write(d1, f, offset, input, stored) ==
    [file |-> [data |-> [i \in 1..Len(d1) |->
                           IF offset < i /\ i <= offset + stored
                           THEN input[i - offset] ELSE d1[i]],
               size |-> f.size],
     ret |-> IoPanic]

\* Mutant of memfs_write: the input is copied to the start of the data.
memfs_write_at0(f, offset, size, input, stored) ==
    LET d1 == resize(f.data, Max(f.size, offset + size))
    IN  IF Len(input) < size THEN short_write(d1, f, offset, input, stored)
        ELSE [file |-> [data |-> [i \in 1..Len(d1) |->
                                    IF i <= size THEN input[i] ELSE d1[i]],
                        size |-> offset + size],
              ret |-> IoOk(size)]

\* MemFS::write on the File of an inode: resize the data to
\* max(file.size(), offset + size), read_exact size bytes of the input into
\* data[offset..offset + size] (unwrap panics when the input is shorter),
\* set the size of the attrs to offset + size, return size.
memfs_write(f, offset, size, input, stored) ==
    LET d1 == resize(f.data, Max(f.size, offset + size))
    IN  IF Len(input) < size THEN short_write(d1, f, offset, input, stored)
        ELSE [file |-> [data |-> [i \in 1..Len(d1) |->
                                    IF offset < i /\ i <= offset + size
                                    THEN input[i - offset] ELSE d1[i]],
                        size |-> offset + size],
              ret |-> IoOk(size)]

\* MemFS::setattr on the File of an inode: file.attrs.apply_attrs(attrs); of
\* the attrs of a File the size is kept here, so this is copy_attr!(size).
\* The attributes after the call are returned.
memfs_setattr(f, update) ==
    LET f1 == copy_attr(f, update, "size")
    IN  [file |-> f1, ret |-> IoOk(f1.size)]

\* The SetFileAttributes that set the size or nothing.
SizeUpdates ==
    { [n \in SetFields |-> IF n = "size" THEN s ELSE None] :
        s \in {None} \cup { Some(v) : v \in 0..MaxIo } }

\* The thread that runs the requests has not panicked.
FileAlive == IF fio = None THEN TRUE ELSE Unwrap(fio).ret.outcome = "Ok"

\* The write and setattr requests made on the file so far.
NWrites == IF fio = None THEN 0 ELSE Unwrap(fio).nwrites
NSetattrs == IF fio = None THEN 0 ELSE Unwrap(fio).nsetattrs

\* A read request on the file. It leaves the file as it is, so the reads are
\* looked at one per state of the file.
FileRead ==
    /\ FileAlive
    /\ (IF fio = None THEN TRUE ELSE Unwrap(fio).op # "read")
    /\ \E offset \in 0..MaxIo, size \in 0..MaxIo :
         fio' = Some([op |-> "read", offset |-> offset, size |-> size,
                      input |-> <<>>, before |-> file,
                      nwrites |-> NWrites, nsetattrs |-> NSetattrs,
                      ret |-> memfs_read(file, offset, size)])
    /\ UNCHANGED <<tableVars, attrVars, runnerVars, seed, fsr, pg, file,
                   handed>>

\* A write request on the file.
FileWrite ==
    /\ FileAlive
    /\ NWrites + NSetattrs < MaxWrites
    /\ \E offset \in 0..MaxIo, size \in 0..MaxIo, len \in 0..MaxIo :
         \E stored \in (IF len < size THEN {0, len} ELSE {len}) :
            LET w == memfs_write(file, offset, size, Input(len), stored)
            IN  /\ file' = w.file
                /\ fio' = Some([op |-> "write", offset |-> offset,
                                size |-> size, input |-> Input(len),
                                before |-> file,
                                nwrites |-> 1 + NWrites,
                                nsetattrs |-> NSetattrs,
                                ret |-> w.ret])
    /\ UNCHANGED <<tableVars, attrVars, runnerVars, seed, fsr, pg, handed>>

\* A setattr request on the file.
FileSetattr ==
    /\ FileAlive
    /\ NWrites + NSetattrs < MaxWrites
    /\ \E update \in SizeUpdates :
         LET r == memfs_setattr(file, update)
         IN  /\ file' = r.file
             /\ fio' = Some([op |-> "setattr", offset |-> 0, size |-> 0,
                             input |-> <<>>, before |-> file,
                             nwrites |-> NWrites,
                             nsetattrs |-> 1 + NSetattrs,
                             ret |-> r.ret])
    /\ UNCHANGED <<tableVars, attrVars, runnerVars, seed, fsr, pg, handed>>

----------------------------------------------------------------------------
(* The inode counter at the end of its range (src/src/lib.rs, basic.rs) *)

\* An inode that is in no table of SpecInode.
NoSuchInode == U64_MAX - MaxAlloc - 1

\* A client calls push_entry on a table whose counter is close to U64_MAX.
\* push_entry starts with next_open_inode, which hands out cur_ino and steps
\* the counter with next_inode; at U64_MAX a build with overflow checks
\* panics there, before the table is changed.
InodePush ==
    /\ ~handed.panicked
    /\ Len(handed.out) < MaxAlloc
    /\ \E parent \in DOMAIN map \cup {NoSuchInode}, name \in {<<"a">>, <<"b">>},
          kind \in Kinds :
         IF debug_assertions /\ next_inode_overflows(cur_ino)
         THEN /\ handed' = [handed EXCEPT !.panicked = TRUE]
              /\ UNCHANGED <<map, cur_ino>>
         ELSE LET r == push_entry(Table, parent, name, kind)
              IN  /\ map' = r.tbl.map
                  /\ cur_ino' = r.tbl.cur_ino
                  /\ handed' = [handed EXCEPT
                                  !.out = Append(@, next_open_inode(Table).ino)]
    /\ UNCHANGED <<last, looked, returned, path, attrVars, runnerVars, seed,
                   fsr, pg, file, fio>>

----------------------------------------------------------------------------
(* Specifications *)

TableInit ==
    /\ map = Default.map
    /\ cur_ino = Default.cur_ino
    /\ last = [op |-> "default"]
    /\ looked = None
    /\ returned = <<>>

AttrsIdle ==
    /\ attrs = builder(0)
    /\ alast = [op |-> "build"]

\* Runner::new: run_block has not been called.
RunnerNew ==
    /\ pc = "new"
    /\ inflight = None
    /\ nreq = 0
    /\ nreplies = 0
    /\ hist = None
    /\ result = None
    /\ fault = None
    /\ closed = FALSE

RunnerIdle ==
    /\ RunnerNew
    /\ debug_assertions = TRUE

\* No request has been made to MemFS.
FsNew ==
    /\ fsr = None
    /\ pg = None
    /\ file = File_new(<<>>)
    /\ fio = None
    /\ handed = [out |-> <<>>, panicked |-> FALSE]

FsIdle ==
    /\ FsNew
    /\ seed = <<<<"a">>, <<"b">>, LongName>>

\* The table under push_entry calls.
Init ==
    /\ TableInit
    /\ path = <<>>
    /\ AttrsIdle
    /\ RunnerIdle
    /\ FsIdle

Next == PushEntry(MaxPush)

Spec == Init /\ [][Next]_vars

\* The table under push_entry, lookup and lookup_mut calls for one path.
InitLookup ==
    /\ TableInit
    /\ path \in Paths
    /\ AttrsIdle
    /\ RunnerIdle
    /\ FsIdle

NextLookup ==
    \/ PushEntry(MaxPushLookup)
    \/ Lookup

SpecLookup == InitLookup /\ [][NextLookup]_vars

\* One FileAttributes value under apply_attrs.
InitAttrs ==
    /\ TableInit
    /\ path = <<>>
    /\ attrs \in BuiltAttrs
    /\ alast = [op |-> "build"]
    /\ RunnerIdle
    /\ FsIdle

NextAttrs ==
    \/ SetField
    \/ ApplyAttrs
    \/ ApplyAgain

SpecAttrs == InitAttrs /\ [][NextAttrs]_vars

\* run_block of a new Runner, in a build with or without debug assertions.
InitRunner ==
    /\ TableInit
    /\ path = <<>>
    /\ AttrsIdle
    /\ RunnerNew
    /\ debug_assertions \in BOOLEAN
    /\ FsIdle

NextRunner ==
    \/ Mount
    \/ ReceiveRequest
    \/ ReceiveEnd
    \/ ReceiveFail
    \/ DecodeFail
    \/ HandleOpen
    \/ HandleOpendir
    \/ HandleSetxattr
    \/ HandleGetxattr
    \/ HandleListxattr
    \/ HandleLookup
    \/ HandleGetattr
    \/ HandleSetattr
    \/ HandleReaddir
    \/ HandleRead
    \/ HandleWrite
    \/ HandleOther

SpecRunner == InitRunner /\ [][NextRunner]_vars

\* MemFS::new, push_entry calls, then lookup and readdir requests, for each
\* iteration order of the children.
InitFs ==
    /\ TableInit
    /\ path = <<>>
    /\ AttrsIdle
    /\ RunnerIdle
    /\ FsNew
    /\ seed \in HashOrders

NextFs ==
    \/ FsPush
    \/ FsLookup
    \/ FsReaddir

SpecFs == InitFs /\ [][NextFs]_vars

\* A client pages through a directory of MemFS. The client goes on with its
\* next request for as long as it has not received an empty listing.
NextPaging ==
    \/ FsPush
    \/ PageStart
    \/ PageNext

SpecPaging == InitFs /\ [][NextPaging]_vars /\ WF_vars(PageNext)

\* A file made with File::new under read and write requests.
InitFile ==
    /\ TableInit
    /\ path = <<>>
    /\ AttrsIdle
    /\ RunnerIdle
    /\ seed = <<<<"a">>, <<"b">>, LongName>>
    /\ fsr = None
    /\ pg = None
    /\ \E len \in 0..MaxIo : file = File_new(NewData(len))
    /\ fio = None
    /\ handed = [out |-> <<>>, panicked |-> FALSE]

NextFile ==
    \/ FileRead
    \/ FileWrite
    \/ FileSetattr

SpecFile == InitFile /\ [][NextFile]_vars

\* A table whose counter has come close to U64_MAX (every push_entry, failed
\* ones too, steps the counter), in a build with or without overflow checks.
InitInode ==
    /\ map = Default.map
    /\ cur_ino \in (U64_MAX - MaxAlloc)..U64_MAX
    /\ last = [op |-> "default"]
    /\ looked = None
    /\ returned = <<>>
    /\ path = <<>>
    /\ AttrsIdle
    /\ RunnerNew
    /\ debug_assertions \in BOOLEAN
    /\ FsIdle

NextInode == InodePush

SpecInode == InitInode /\ [][NextInode]_vars

----------------------------------------------------------------------------
(* Properties of the table *)

Prefixes(p) == { SubSeq(p, 1, k) : k \in 0..Len(p) }

\* std::path::Path::join on Unix: an absolute name replaces the base, a
\* separator is added unless the base is empty or already ends with one.
join(base, name) ==
    IF has_root(name) THEN name
    ELSE IF base = <<>> \/ base[Len(base)] = Sep THEN base \o name
    ELSE base \o <<Sep>> \o name

PushOk == last.op = "push_entry" /\ last.ret # None
PushFailed == last.op = "push_entry" /\ last.ret = None

\* A name that Path::components reads as exactly one component.
SingleComponent(name) == Len(components(name)) = 1

\* A single component that is a name: not the root and not ".".
SingleName(name) ==
    /\ SingleComponent(name)
    /\ ~has_root(name)
    /\ name # <<Dot>>

\* The looked-up path is base joined with the name of the last push_entry, and
\* base resolves to the parent of that call.
IsParentPath(base) ==
    /\ join(base, last.name) = path
    /\ lookup(Table, base) # None
    /\ Unwrap(lookup(Table, base)).ino = last.parent

LookupFound(ino) ==
    /\ Unwrap(looked).ret # None
    /\ Unwrap(Unwrap(looked).ret).ino = ino

\* C1 as stated: after a successful push_entry(parent, name, payload) whose
\* name is a single path component, a following lookup of the parent's path
\* joined with name returns the inode push_entry returned.
C1_AnyComponent ==
    (looked # None /\ PushOk /\ SingleComponent(last.name)) =>
        \A base \in Prefixes(path) :
            IsParentPath(base) => LookupFound(Unwrap(last.ret))

\* C1 amended: the same for a name that is a single component other than "."
\* and the root: non-empty, without separator, and not ".".
C1_PushThenLookup ==
    (looked # None /\ PushOk /\ SingleName(last.name)) =>
        \A base \in Prefixes(path) :
            IsParentPath(base) => LookupFound(Unwrap(last.ret))

\* A lookup of "<dir>/<name>" after pushing <name> into a directory below the
\* root has been made.
C1_Witness ==
    /\ looked # None
    /\ PushOk
    /\ SingleName(last.name)
    /\ last.parent # ROOT_INODE
    /\ \E base \in Prefixes(path) : IsParentPath(base)

\* C2: every inode returned by a successful push_entry is greater than the
\* root inode and greater than every inode returned before it.
C2_InodesIncrease ==
    \A i \in 1..Len(returned) :
        /\ returned[i] > ROOT_INODE
        /\ \A j \in 1..(i - 1) : returned[j] < returned[i]

\* Two successful push_entry calls with a failed one between them.
C2_Witness ==
    /\ Len(returned) >= 2
    /\ returned[Len(returned)] > returned[Len(returned) - 1] + 1

\* C3: get(ROOT_INODE) is an entry without parent whose kind is Directory.
C3_RootStays ==
    /\ get(Table, ROOT_INODE) # None
    /\ Unwrap(get(Table, ROOT_INODE)).parent = None
    /\ Unwrap(get(Table, ROOT_INODE)).kind = "Directory"

\* A failed push_entry after a successful one that put a child into the root.
C3_Witness ==
    /\ PushFailed
    /\ Len(returned) >= 1
    /\ DOMAIN map[ROOT_INODE].children # {}

\* C4: the root is the only entry without parent, and the parent of every
\* other entry is in the table and is a Directory.
C4_ParentsAreDirectories ==
    \A i \in DOMAIN map :
        /\ (map[i].parent = None) <=> (i = ROOT_INODE)
        /\ i # ROOT_INODE =>
              /\ Unwrap(map[i].parent) \in DOMAIN map
              /\ map[Unwrap(map[i].parent)].kind = "Directory"

\* The table holds a file, and an entry below a directory other than the root.
C4_Witness ==
    /\ \E i \in DOMAIN map : map[i].kind = "File"
    /\ \E i \in DOMAIN map :
          map[i].parent # None /\ Unwrap(map[i].parent) # ROOT_INODE

\* C5: a push_entry whose parent is absent or is not a Directory returns None
\* and leaves every entry, and so every directory's children, as it was.
C5_FailedPushChangesNothing ==
    [][ (cur_ino' # cur_ino /\ last'.op = "push_entry" /\
         (last'.parent \notin DOMAIN map \/
          map[last'.parent].kind # "Directory"))
        => (last'.ret = None /\ map' = map) ]_vars

\* A push_entry into a parent that is a file has failed.
C5_Witness ==
    /\ PushFailed
    /\ last.parent \in DOMAIN map
    /\ map[last.parent].kind = "File"

\* C6: after a successful push_entry returning i, get(i) has the given parent
\* and the payload's kind, and the parent's children map the name to i.
C6_PushStoresEntry ==
    PushOk =>
        LET i == Unwrap(last.ret)
        IN  /\ get(Table, i) # None
            /\ Unwrap(get(Table, i)).parent = Some(last.parent)
            /\ Unwrap(get(Table, i)).kind = last.kind
            /\ get(Table, last.parent) # None
            /\ dir_get(map[last.parent].children, last.name) = Some(i)

\* A successful push_entry of a file into a directory other than the root,
\* under a name the directory already had.
C6_Witness ==
    /\ PushOk
    /\ last.kind = "File"
    /\ last.parent # ROOT_INODE
    /\ \E i \in DOMAIN map :
          /\ i # Unwrap(last.ret)
          /\ map[i].parent = Some(last.parent)

----------------------------------------------------------------------------
(* Properties of lookup *)

\* C7: lookup and lookup_mut both fail or both return the same inode.
C7_LookupMutParity ==
    looked # None =>
        LET r == Unwrap(looked).ret
            m == Unwrap(looked).ret_mut
        IN  /\ (r = None) <=> (m = None)
            /\ r # None => Unwrap(r).ino = Unwrap(m).ino

\* Both lookups of an absolute path found an entry below the root.
C7_Witness ==
    /\ looked # None
    /\ has_root(path)
    /\ Unwrap(looked).ret # None
    /\ Unwrap(looked).ret_mut # None
    /\ Unwrap(Unwrap(looked).ret).entry.parent # None

\* C8 as stated: for a relative path p of one or more components, lookup(p)
\* and lookup("/" + p) give the same result.
C8_LeadingSlash ==
    (looked # None /\ ~has_root(path) /\ Len(components(path)) >= 1) =>
        lookup(Table, <<Sep>> \o path) = Unwrap(looked).ret

\* The components of a path that name entries: all but the root component.
NameComponents(p) ==
    IF has_root(p) THEN Tail(components(p)) ELSE components(p)

\* chain is the walk of names from the root: every step leaves a Directory
\* through a child of that name.
IsWalk(chain, names) ==
    /\ chain[0] = ROOT_INODE
    /\ \A k \in 1..Len(names) :
          /\ map[chain[k - 1]].kind = "Directory"
          /\ names[k] \in DOMAIN map[chain[k - 1]].children
          /\ map[chain[k - 1]].children[names[k]] = chain[k]

Walks(names) ==
    { chain \in [0..Len(names) -> DOMAIN map] : IsWalk(chain, names) }

\* C9: lookup succeeds exactly when every component names a child of the
\* directory reached so far and every component before the last resolves to
\* a Directory; it returns the entry the last component resolves to.
C9_LookupResolves ==
    looked # None =>
        LET names == NameComponents(path)
            r == Unwrap(looked).ret
        IN  /\ (r # None) <=> (Walks(names) # {})
            /\ r # None => \A chain \in Walks(names) :
                              Unwrap(r).ino = chain[Len(names)]

\* A lookup failed because a component before the last resolved to a file.
C9_Witness ==
    /\ looked # None
    /\ Unwrap(looked).ret = None
    /\ Len(NameComponents(path)) >= 2
    /\ NameComponents(path)[1] \in DOMAIN map[ROOT_INODE].children
    /\ map[map[ROOT_INODE].children[NameComponents(path)[1]]].kind = "File"

----------------------------------------------------------------------------
(* Properties of apply_attrs *)

\* C10: after a.apply_attrs(u) every field of SetFileAttributes has u's value
\* when u's field is Some and a's previous value when it is None, and nlink,
\* rdev, blksize, blocks and ttl have a's previous value.
C10_ApplyAttrsFrame ==
    alast.op = "apply_attrs" =>
        /\ \A f \in SetFields :
              attrs[f] = IF alast.update[f] = None THEN alast.before[f]
                         ELSE Unwrap(alast.update[f])
        /\ \A f \in AttrFields \ SetFields : attrs[f] = alast.before[f]

\* An update with only ctime set has changed ctime of a value whose other
\* fields are not zero.
C10_Witness ==
    /\ alast.op = "apply_attrs"
    /\ alast.calls = 1
    /\ { f \in SetFields : alast.update[f] # None } = {"ctime"}
    /\ attrs.ctime # alast.before.ctime
    /\ \A f \in AttrFields \ {"ctime"} : attrs[f] # 0

\* C11: applying the same SetFileAttributes twice in a row gives the same
\* attributes as applying it once: the second call changes nothing.
C11_ApplyTwice ==
    (alast.op = "apply_attrs" /\ alast.calls = 2) => attrs = alast.before

\* An update that sets some fields and leaves others was applied twice, and
\* its first application had changed the value.
C11_Witness ==
    /\ alast.op = "apply_attrs"
    /\ alast.calls = 2
    /\ \E f \in SetFields : alast.update[f] = None
    /\ \E f \in SetFields :
          /\ alast.update[f] # None
          /\ Unwrap(alast.update[f]) # alast.first[f]

----------------------------------------------------------------------------
(* Properties of the Runner *)

\* The last handled request, when there is one.
H == Unwrap(hist)

XattrOps == {"Getxattr", "Listxattr"}

\* C12: the Runner sends exactly one reply for each request the transport
\* delivers, before it receives the next one: while a request is in dispatch
\* every earlier request has its reply, and outside dispatch (when no
\* transport failure ended the loop) every received request has its reply.
C12_OneReplyEach ==
    /\ pc = "dispatch" => nreplies = nreq - 1
    /\ (pc # "dispatch" /\ fault = None) => nreplies = nreq

\* C13: when a Filesystem method returns an FSError the Runner hands the
\* error reply with its code to the transport and the handler returns Ok, so
\* the loop goes on; the handler returns an error only when the transport
\* did not take the reply, and run_block returns an error only on a transport
\* failure.
C13_FSErrorIsReplied ==
    /\ (hist # None /\ H.fs # None /\ ~Unwrap(H.fs).ok) =>
          /\ H.tried = <<ErrorReply(to_libc_error(Unwrap(H.fs).err))>>
          /\ H.ret = "Ok" => H.replies = H.tried
          /\ H.ret # "Ok" => (fault = Some("send") /\ H.replies = <<>>)
    /\ pc = "returned" => fault # None

\* The backend answered a lookup with NotDirectory, the Runner replied
\* ENOTDIR and has received the next request.
C13_Witness ==
    /\ hist # None
    /\ H.req.op = "Lookup"
    /\ H.fs = Some(FsErr("NotDirectory"))
    /\ H.replies = <<ErrorReply("ENOTDIR")>>
    /\ pc = "dispatch"
    /\ nreq = 2
    /\ result = None

\* C14: when the transport has signalled that there are no more requests,
\* run_block has returned a result, and the join handle of run() yields the
\* Runner with that result.
C14_EndReturns ==
    closed =>
        /\ pc = "returned"
        /\ result # None
        /\ run_join = Some([ok |-> TRUE, runner |-> "self", result |-> result])

\* C15: a transport failure (mount, receive, decode, sending a reply or an
\* error reply) ends the loop at once: run_block has returned that failure
\* as its error, no request is in flight, and no request is received after.
C15_TransportFailureEnds ==
    /\ [](fault # None =>
            /\ pc = "returned"
            /\ inflight = None
            /\ result = Some(CASE fault = Some("mount") -> "IoError"
                               [] fault = Some("receive") -> "IoError"
                               [] fault = Some("decode") -> "DecodeError"
                               [] fault = Some("send") ->
                                    IF H.tried[1].kind = "error"
                                    THEN "ReplyErrError" ELSE "ReplyError"))
    /\ [][fault # None => (nreq' = nreq /\ pc' = "returned")]_vars

\* The transport did not take the error reply of the second request.
C15_Witness ==
    /\ fault = Some("send")
    /\ nreq = 2
    /\ H.tried = <<ErrorReply("ENOENT")>>
    /\ H.replies = <<>>
    /\ result = Some("ReplyErrError")
    /\ pc = "returned"

\* C16: for an operation with no Filesystem method, and for a readdir in
\* readdir-plus mode, the Runner replies ENOSYS and calls no Filesystem
\* method.
C16_Unsupported ==
    (/\ hist # None
     /\ \/ H.req.op = "Other"
        \/ (H.req.op = "Readdir" /\ H.req.mode = "Plus")) =>
        /\ H.calls = <<>>
        /\ H.fs = None
        /\ H.tried = <<ErrorReply("ENOSYS")>>
        /\ H.ret = "Ok" => H.replies = H.tried

\* A readdir-plus request was answered with ENOSYS.
C16_Witness ==
    /\ hist # None
    /\ H.req.op = "Readdir"
    /\ H.req.mode = "Plus"
    /\ H.replies = <<ErrorReply("ENOSYS")>>
    /\ pc = "awaiting"

\* The requests C17 is about: lookup, getattr, setattr, open, opendir,
\* setxattr, getxattr, listxattr, read, write and readdir not in plus mode.
Supported(req) ==
    /\ req.op \in HandledOps
    /\ ~(req.op = "Readdir" /\ req.mode = "Plus")

\* C17 as stated: for every request of a supported operation the Runner
\* calls exactly one Filesystem method, the one matching the operation, once.
C17_OneCallEach ==
    (hist # None /\ Supported(H.req)) =>
        /\ Len(H.calls) = 1
        /\ H.calls[1].method = Method(H.req.op)

\* C17: for every request of a supported operation the Runner calls exactly
\* one Filesystem method, the one matching the operation, once; except a
\* setxattr request whose flags do not decode, for which it calls none.
C17_OneCallUnlessInvalidFlags ==
    (hist # None /\ Supported(H.req)) =>
        IF H.req.op = "Setxattr" /\ from_libc_type(H.req.flags) = None
        THEN H.calls = <<>>
        ELSE /\ Len(H.calls) = 1
             /\ H.calls[1].method = Method(H.req.op)

\* A readdir request not in plus mode made one readdir call, and the
\* backend's entries were replied.
C17_Witness ==
    /\ hist # None
    /\ H.req.op = "Readdir"
    /\ H.req.mode = "Normal"
    /\ H.calls = <<Call("readdir", "")>>
    /\ H.replies = <<OutReply>>
    /\ nreq = 2

\* C18: a setxattr request with neither or both of the create and replace
\* bits is answered EINVAL without a setxattr call; with exactly one bit the
\* request is passed to the backend's setxattr with that flag.
C18_SetxattrFlags ==
    (hist # None /\ H.req.op = "Setxattr") =>
        IF H.req.flags \in {0, XATTR_CREATE + XATTR_REPLACE}
        THEN /\ H.calls = <<>>
             /\ H.tried = <<ErrorReply("EINVAL")>>
             /\ H.ret = "Ok" => H.replies = H.tried
        ELSE H.calls = <<Call("setxattr",
                              IF H.req.flags = XATTR_CREATE THEN "Create"
                              ELSE "Replace")>>

\* A setxattr request with both bits was answered EINVAL.
C18_Witness ==
    /\ hist # None
    /\ H.req.op = "Setxattr"
    /\ H.req.flags = XATTR_CREATE + XATTR_REPLACE
    /\ H.replies = <<ErrorReply("EINVAL")>>
    /\ H.calls = <<>>

\* C19: a getxattr or listxattr request with max length 0 that the backend
\* answers with success gets a length-only reply with the full length and
\* no data.
C19_SizeQuery ==
    (/\ hist # None
     /\ H.req.op \in XattrOps
     /\ H.req.size = 0
     /\ H.fs # None
     /\ Unwrap(H.fs).ok) =>
        /\ H.tried = <<SizeReply(Unwrap(H.fs).full_len)>>
        /\ H.ret = "Ok" => H.replies = H.tried

\* A size query for a value of full length MaxLen, for which the backend
\* also returned fewer bytes, was answered with MaxLen.
C19_Witness ==
    /\ hist # None
    /\ H.req.op = "Getxattr"
    /\ H.req.size = 0
    /\ H.fs # None
    /\ Unwrap(H.fs).ok
    /\ Unwrap(H.fs).full_len = MaxLen
    /\ Unwrap(H.fs).data_len < MaxLen
    /\ H.replies = <<SizeReply(MaxLen)>>

\* C20: a getxattr or listxattr request with a nonzero max length smaller
\* than the full length is answered with an error reply, not with data cut
\* to the max length; and no data reply is longer than the max length.
C20_OverflowIsError ==
    (/\ hist # None
     /\ H.req.op \in XattrOps
     /\ H.req.size # 0
     /\ H.fs # None
     /\ Unwrap(H.fs).ok) =>
        /\ Unwrap(H.fs).full_len > H.req.size =>
              (Len(H.tried) = 1 /\ H.tried[1].kind = "error")
        /\ \A i \in 1..Len(H.tried) :
              H.tried[i].kind = "data" => H.tried[i].len <= H.req.size

\* C21: each FSError goes to the transport as its fixed code: NoEntry as
\* ENOENT, NotFile as EINVAL, NotDirectory as ENOTDIR, NotImplemented as
\* ENOSYS, InvalidFlags as EINVAL, whether a Filesystem method returned it,
\* the Runner made it for an operation without a method (NotImplemented), or
\* the Runner made it for setxattr flags that do not decode (InvalidFlags).
C21_ErrorCodes ==
    hist # None =>
        /\ (H.fs # None /\ ~Unwrap(H.fs).ok) =>
              \E r \in {<<"NoEntry", "ENOENT">>, <<"NotFile", "EINVAL">>,
                        <<"NotDirectory", "ENOTDIR">>,
                        <<"NotImplemented", "ENOSYS">>,
                        <<"InvalidFlags", "EINVAL">>} :
                  /\ Unwrap(H.fs).err = r[1]
                  /\ H.tried = <<ErrorReply(r[2])>>
        /\ H.req.op = "Other" => H.tried = <<ErrorReply("ENOSYS")>>
        /\ (H.req.op = "Setxattr" /\ H.fs = None) =>
              H.tried = <<ErrorReply("EINVAL")>>

\* The backend answered a read with NotFile and the transport got EINVAL.
C21_Witness ==
    /\ hist # None
    /\ H.req.op = "Read"
    /\ H.fs = Some(FsErr("NotFile"))
    /\ H.replies = <<ErrorReply("EINVAL")>>

----------------------------------------------------------------------------
(* Properties of MemFS and of the readdir reply *)

\* The last request was a readdir that MemFS answered with entries.
ReaddirOk ==
    /\ fsr # None
    /\ Unwrap(fsr).op = "readdir"
    /\ Unwrap(fsr).ret.ok

\* The last request, the directory it read and the entries MemFS returned.
R == Unwrap(fsr)
RDir == map[R.ino]
REntries == R.ret.val

\* The listing of the same directory from cursor 0.
Listing0 == memfs_readdir(Table, seed, R.ino, 0).val

\* C22: readdir from cursor 0 on a directory with n children returns n+2
\* entries: "." with offset 1 and the directory's inode, ".." with offset 2,
\* then every child exactly once, with offsets 3, .., n+2 in the returned
\* order.
C22_ReaddirFromZero ==
    (ReaddirOk /\ R.offset = 0) =>
        LET n == Cardinality(DOMAIN RDir.children)
        IN  /\ Len(REntries) = n + 2
            /\ REntries[1].name = <<Dot>>
            /\ REntries[1].inode = R.ino
            /\ REntries[2].name = <<Dot, Dot>>
            /\ \A i \in 1..Len(REntries) : REntries[i].offset = i
            /\ \A name \in DOMAIN RDir.children :
                  Cardinality({ i \in 3..(n + 2) :
                                  /\ REntries[i].name = name
                                  /\ REntries[i].inode = RDir.children[name]
                              }) = 1

\* A directory with two children, a file and a directory, was read from
\* cursor 0, and the child pushed last comes first.
C22_Witness ==
    /\ ReaddirOk
    /\ R.offset = 0
    /\ Cardinality(DOMAIN RDir.children) = 2
    /\ Len(REntries) = 4
    /\ REntries[3].inode > REntries[4].inode
    /\ REntries[3].typ # REntries[4].typ

\* C23: readdir from cursor c returns the entries of the cursor-0 listing
\* that come after the entry with offset c, in the same order and with the
\* same offsets; for two children and cursor 3 that is the one entry with
\* offset 4.
C23_ReaddirFromCursor ==
    ReaddirOk =>
        LET after(e) == e.offset > R.offset
        IN  /\ REntries = SelectSeq(Listing0, after)
            /\ (Cardinality(DOMAIN RDir.children) = 2 /\ R.offset = 3) =>
                  (Len(REntries) = 1 /\ REntries[1].offset = 4)

\* A directory with two children was read from cursor 3 and gave the child
\* that iterates second.
C23_Witness ==
    /\ ReaddirOk
    /\ R.offset = 3
    /\ Cardinality(DOMAIN RDir.children) = 2
    /\ REntries = <<Listing0[4]>>
    /\ REntries[1].name # <<Dot>>

\* C24: the ".." entry of a readdir carries the inode of the directory's
\* parent, and the root inode for a directory with no parent.
C24_DotDotInode ==
    ReaddirOk =>
        \A i \in 1..Len(REntries) :
            REntries[i].offset = 2 =>
                REntries[i].inode = IF RDir.parent = None THEN ROOT_INODE
                                    ELSE Unwrap(RDir.parent)

\* C27: lookup(parent, name) fails with NoEntry when parent is not in the
\* table or name is not a child of it, fails with NotDirectory when parent
\* is not a directory, and else returns the child's inode with the child's
\* attributes.
C27_MemfsLookup ==
    (fsr # None /\ R.op = "lookup") =>
        IF R.ino \notin DOMAIN map THEN R.ret = MemErr("NoEntry")
        ELSE IF map[R.ino].kind # "Directory"
        THEN R.ret = MemErr("NotDirectory")
        ELSE IF R.name \notin DOMAIN map[R.ino].children
        THEN R.ret = MemErr("NoEntry")
        ELSE /\ R.ret.ok
             /\ R.ret.val.inode = map[R.ino].children[R.name]
             /\ R.ret.val.attributes = getattrs(Table, R.ret.val.inode)
             /\ R.ret.val.attributes.owner = map[R.ino].children[R.name]

\* A lookup in a directory below the root found a file.
C27_Witness ==
    /\ fsr # None
    /\ R.op = "lookup"
    /\ R.ino # ROOT_INODE
    /\ R.ret.ok
    /\ map[R.ret.val.inode].kind = "File"
    /\ R.ret.val.attributes.of = "File"

\* The number of leading entries of es that fit together in size bytes.
RECURSIVE Fitting(_, _, _)
Fitting(es, i, size) ==
    IF i > Len(es) \/ entry_size(es[i]) > size THEN 0
    ELSE 1 + Fitting(es, i + 1, size - entry_size(es[i]))

\* C28: the reply to a readdir carries the backend's entries in their order,
\* as many leading entries as fit in the requested size: every entry before
\* the first one that does not fit is in the reply.
C28_ReplyPacksLeading ==
    ReaddirOk =>
        R.reply = SubSeq(REntries, 1, Fitting(REntries, 1, R.size))

----------------------------------------------------------------------------
(* Properties of read and write *)

\* The last request on the file.
F == Unwrap(fio)

\* C25: read(offset, max length) on a file succeeds for every offset and max
\* length and returns the bytes of the data from offset, at most max length
\* of them, cut at the end of the data (none when offset is at or past the
\* end); it never fails or aborts.
C25_ReadNeverFails ==
    (fio # None /\ F.op = "read") =>
        F.ret = IoOk(SubSeq(F.before.data, F.offset + 1,
                            Min(Len(F.before.data), F.offset + F.size)))

\* C26: write(offset, length, input) with length bytes of input makes the
\* data at least offset+length long, puts the input bytes at positions
\* offset..offset+length, and returns length.
C26_WriteCopies ==
    (fio # None /\ F.op = "write" /\ Len(F.input) >= F.size) =>
        /\ Len(file.data) >= F.offset + F.size
        /\ \A i \in 1..F.size : file.data[F.offset + i] = F.input[i]
        /\ F.ret = IoOk(F.size)

\* A write past the end of the data grew the file and left a gap before the
\* bytes it wrote.
C26_Witness ==
    /\ fio # None
    /\ F.op = "write"
    /\ F.size = MaxIo
    /\ F.offset > Len(F.before.data)
    /\ F.ret.outcome = "Ok"
    /\ F.ret.val = MaxIo
    /\ Len(file.data) = F.offset + F.size

----------------------------------------------------------------------------
(* Properties of paging through a directory *)

\* The paging client, and the listing of its directory from cursor 0.
P == Unwrap(pg)
PListing == memfs_readdir(Table, seed, P.dir, 0).val
Paging == pg # None

\* C29: a client that pages through an unmodified directory from cursor 0,
\* passing the offset of the last entry it received as the next cursor,
\* receives ".", ".." and every child exactly once and then an empty listing:
\* what it has received is always the start of the listing from cursor 0,
\* every request but the last brought a new entry, and with one request more
\* than the listing has entries the paging is done.
C29_PagingEnds ==
    Paging =>
        /\ P.got = SubSeq(PListing, 1, Len(P.got))
        /\ Len(P.got) <= Len(PListing)
        /\ P.requests = Len(P.got) + (IF P.done THEN 1 ELSE 0)
        /\ P.requests = Len(PListing) + 1 => P.done
        /\ P.done =>
             /\ P.got = PListing
             /\ P.got[1].name = <<Dot>>
             /\ P.got[2].name = <<Dot, Dot>>
             /\ \A name \in DOMAIN map[P.dir].children :
                  Cardinality({ i \in 1..Len(P.got) :
                                  P.got[i].name = name }) = 1
             /\ Len(P.got) = 2 + Cardinality(DOMAIN map[P.dir].children)

\* The paging of a directory with two children, one with the long name, is
\* done: four requests brought an entry each, the fifth the empty listing.
C29_Witness ==
    /\ Paging
    /\ P.done
    /\ P.requests = 5
    /\ Len(P.got) = 4
    /\ LongName \in DOMAIN map[P.dir].children

----------------------------------------------------------------------------
(* Properties of the inode counter *)

\* C30: the inode counter never wraps around and never hands out a number it
\* handed out before, also at the largest value: the inodes handed out are
\* strictly increasing, none of them is 0 or the root inode, and the counter
\* stays above all of them.
C30_CounterNeverWraps ==
    /\ \A i \in 1..Len(handed.out) :
         /\ handed.out[i] < cur_ino
         /\ handed.out[i] # 0
         /\ handed.out[i] # ROOT_INODE
    /\ \A i, j \in 1..Len(handed.out) :
         i < j => handed.out[i] < handed.out[j]

----------------------------------------------------------------------------
(* Properties of the table's counter, entries and children *)

\* C31: a failed push_entry leaves the allocation counter unchanged, so the
\* k-th successful push_entry on a fresh table returns inode k+1.
C31_FailedPushKeepsCounter ==
    \A k \in 1..Len(returned) : returned[k] = k + 1

\* The child mappings of the table: the pairs of a directory and a name among
\* its children.
ChildMappings ==
    { m \in (DOMAIN map) \X Names :
        /\ as_dir(map[m[1]]) # None
        /\ m[2] \in DOMAIN map[m[1]].children }

\* C32: every entry but the root is listed under some name in the children of
\* its recorded parent, so the table has one entry more than there are child
\* mappings.
C32_EntriesAreListed ==
    /\ \A i \in DOMAIN map \ {ROOT_INODE} :
         \E m \in ChildMappings :
            /\ Some(m[1]) = map[i].parent
            /\ map[m[1]].children[m[2]] = i
    /\ Cardinality(DOMAIN map) = 1 + Cardinality(ChildMappings)

\* C33: every inode that is a child in some directory's children is in the
\* table, and its entry records that directory as its parent.
C33_ChildrenArePresent ==
    \A m \in ChildMappings :
        LET i == map[m[1]].children[m[2]]
        IN  /\ get(Table, i) # None
            /\ Unwrap(get(Table, i)).parent = Some(m[1])

\* A directory below the root has a child, and a name of the root was pushed
\* a second time, so the root's children hold the later inode for it.
C33_Witness ==
    /\ \E m \in ChildMappings : m[1] # ROOT_INODE
    /\ \E m \in ChildMappings :
          /\ m[1] = ROOT_INODE
          /\ \E i \in DOMAIN map :
                /\ i < map[ROOT_INODE].children[m[2]]
                /\ map[i].parent = Some(ROOT_INODE)
                /\ \A n \in DOMAIN map[ROOT_INODE].children :
                      map[ROOT_INODE].children[n] # i

\* The number of parent links from inode i up to the root, or -1 when the
\* links do not reach the root within fuel steps.
RECURSIVE Depth(_, _)
Depth(i, fuel) ==
    IF i = ROOT_INODE THEN 0
    ELSE IF fuel = 0 \/ i \notin DOMAIN map \/ map[i].parent = None THEN -1
    ELSE LET d == Depth(Unwrap(map[i].parent), fuel - 1)
         IN  IF d = -1 THEN -1 ELSE d + 1

\* C34: the parent inode of every entry but the root is smaller than the
\* entry's own inode, and the parent links from every entry reach the root.
C34_ParentIsSmaller ==
    \A i \in DOMAIN map \ {ROOT_INODE} :
        /\ map[i].parent # None
        /\ Unwrap(map[i].parent) < i
        /\ Depth(i, Cardinality(DOMAIN map)) >= 1

\* A chain of two directories below the root, after a failed push_entry.
C34_Witness ==
    /\ \E i \in DOMAIN map : Depth(i, Cardinality(DOMAIN map)) = 2
    /\ cur_ino > 1 + Cardinality(DOMAIN map)

----------------------------------------------------------------------------
(* Properties of the file's size under write *)

\* C35: after any sequence of writes on a file made with its size attribute
\* equal to its data length, the size attribute equals the data length.
C35_SizeIsLength ==
    (FileAlive /\ NSetattrs = 0) => file.size = Len(file.data)

\* C36: a write changes only the bytes at offset..offset+length: every other
\* byte of the file keeps its value, and the data length and the size
\* attribute after the write are not smaller than before it.
C36_WriteFrame ==
    (fio # None /\ F.op = "write" /\ F.ret.outcome = "Ok") =>
        /\ Len(file.data) >= Len(F.before.data)
        /\ file.size >= F.before.size
        /\ \A i \in 1..Len(F.before.data) :
             (i <= F.offset \/ i > F.offset + F.size) =>
                 /\ i <= Len(file.data)
                 /\ file.data[i] = F.before.data[i]

====
